---- MODULE Spec2Model ----
(***************************************************************************)
(* Device action-sync server (src/server/etg_server.py, class BridgeState  *)
(* and _WebSocketConn): per-device action queue with resend and TTL, the   *)
(* sync handler, the HTTP and WebSocket transports and the enqueue push.   *)
(*                                                                         *)
(* Every block guarded by BridgeState._lock is one atomic step; socket     *)
(* writes, which the code performs outside that lock, are steps of their   *)
(* own.  Time is the integer clock `now` (time.time()); action ids         *)
(* (uuid4 hex strings) are the numbers 1..MaxActions, 0 stands for a       *)
(* missing or empty id.                                                    *)
(***************************************************************************)
EXTENDS Integers, Sequences, FiniteSets, TLC

\* ---- bounds of the model ----
MaxTime == 3        \* the clock runs 1..MaxTime
MaxActions == 3     \* number of action ids queue_action may issue
MaxTimed == 2       \* number of action ids issued while the clock runs (SpecTime)
MaxPush == 1        \* enqueue threads between their critical section and their push write

Devices == {"dev1", "dev2"}
Conns == {"c1", "c2"}
NoConn == "none"                    \* device["ws"] is None
NoDev == ""                         \* None / empty device id
ConfigToken == "secret"             \* a non-empty auth_token
ActionIds == 1..MaxActions

VARIABLES
  now,              \* time.time()
  config,           \* BridgeState.config: auth_token, max_queue, max_logs, max_results,
                    \* resend_after
  devices,          \* keys of BridgeState._devices, in insertion order
  last_seen,        \* device["last_seen"]
  info,             \* device["info"], a set of <<key, value>> pairs
  queue,            \* device["queue"], items [id, ttl, ts, sent_ts]
  logs,             \* device["logs"], the texts
  results,          \* device["results"], the result ids
  ws,               \* device["ws"]
  last_device_id,   \* BridgeState._last_device_id
  alive,            \* _WebSocketConn.alive
  conn_device_id,   \* _WebSocketConn.device_id
  pc,               \* position of each connection's handle_ws worker
  resp,             \* handle_ws locals: status, device_id, response actions
  pushes,           \* queue_action threads before and after their critical section
  next_id,          \* next action id to issue
  issued,           \* history: device, ts and ttl of every id queue_action returned
  inclAt,           \* history: time of the last collect that included the action
  prevIncl,         \* history: time of the collect before that one that included it
  enqSince,         \* history: ids enqueued for the device since its last prune
  acked,            \* history: ids acknowledged by an accepted sync of their device
  evicted,          \* history: connections closed by the bind of another connection
  undelivered,      \* history: ids carried by a push that was not written, until the
                    \* device's next accepted sync
  last,             \* history: the operation performed by the last step
  sock,             \* the bytes written to _WebSocketConn.sock and not yet read
  lock,             \* the threads inside "with self.lock" of _WebSocketConn.send_frame
  writers,          \* send_frame calls in progress: the frame and the bytes sent so far
  sent,             \* the text handed to send_text
  got,              \* the value recv_text returned
  waiter,           \* a wait_result call: its arguments, its clock and its position
  owner             \* the threads inside "with self._lock" of BridgeState

registry == <<devices, last_seen, info, queue, logs, results, ws, last_device_id>>
connvars == <<alive, conn_device_id, pc, resp, pushes>>
history == <<issued, inclAt, prevIncl, enqSince, acked, evicted, undelivered>>
wire == <<sock, lock, writers, sent, got, waiter, owner>>
bridge == <<now, config, registry, connvars, next_id, history, last>>
vars == <<bridge, wire>>

\* threads that write to one connection: two queue_action pushes and the connection's
\* handle_ws worker, which answers a sync or a ping
Threads == {"push1", "push2", "worker"}
NoFrame == [pc |-> "idle", frame |-> <<>>, n |-> 0]
NoText == [none |-> TRUE, text |-> <<>>]
NoWait == [pc |-> "idle", dev |-> NoDev, id |-> 0, pop |-> FALSE, timeout |-> 0,
           end |-> 0, t |-> 0, fresh |-> FALSE, found |-> FALSE]
NoKey == <<>>
NoSent == [none |-> TRUE, text |-> <<>>, key |-> NoKey]

Range(s) == {s[i] : i \in DOMAIN s}
Ids(s) == {s[i].id : i \in DOMAIN s}
IdSeq(s) == [i \in DOMAIN s |-> s[i].id]

\* s[-n:] for n >= 1
LastN(s, n) == IF Len(s) > n THEN SubSeq(s, Len(s) - n + 1, Len(s)) ELSE s

\* ---------------------------------------------------------------------------
\* Sync payloads (the JSON value handed to handle_sync)
\* ---------------------------------------------------------------------------
NoInfo == [isDict |-> FALSE, map |-> {}]
NoList == [isList |-> FALSE, items |-> <<>>]
InfoIn == {NoInfo, [isDict |-> TRUE, map |-> {<<"k1", 1>>}],
           [isDict |-> TRUE, map |-> {<<"k2", 1>>}]}
LogsIn == {NoList, [isList |-> TRUE, items |-> <<"", "boot">>]}
ResItem(a) == [isDict |-> TRUE, id |-> a]
ResultsIn == {NoList, [isList |-> TRUE, items |-> <<[isDict |-> FALSE, id |-> 0]>>]}
             \cup {[isList |-> TRUE, items |-> <<ResItem(a)>>] : a \in 0..MaxActions}
AckIn == {NoList} \cup {[isList |-> TRUE, items |-> <<a>>] : a \in 0..MaxActions}

Body(i, l, r, a) == [info |-> i, logs |-> l, results |-> r, ack |-> a]
Bodies == {Body(NoInfo, NoList, r, a) : r \in ResultsIn, a \in AckIn}
          \cup {Body(i, l, NoList, NoList) : i \in InfoIn, l \in LogsIn}

Tokens == {ConfigToken, "wrong", "none"}
DevIn == Devices \cup {NoDev}

NotADict == [isDict |-> FALSE, token |-> "none", device_id |-> NoDev,
             info |-> NoInfo, logs |-> NoList, results |-> NoList, ack |-> NoList]
Payloads == {NotADict} \cup
            {[isDict |-> TRUE, token |-> t, device_id |-> d, info |-> b.info,
              logs |-> b.logs, results |-> b.results, ack |-> b.ack] :
               t \in Tokens, d \in DevIn, b \in Bodies}

\* ---------------------------------------------------------------------------
\* Registry helpers
\* ---------------------------------------------------------------------------
\* variant of get_device: a new record on every call
get_device_always_new(d) == Append(devices, d)

get_device(d) == IF d \in Range(devices) THEN devices ELSE Append(devices, d)

log_device(lg, text) == LastN(Append(lg, text), config.max_logs)

RECURSIVE sync_logs(_, _)
sync_logs(lg, texts) ==
  IF texts = <<>> THEN lg
  ELSE sync_logs(IF Head(texts) # "" THEN log_device(lg, Head(texts)) ELSE lg, Tail(texts))

\* variant of append_results: the list is never cut
append_results_untrimmed(rs, res) ==
  IF ~res.isList \/ res.items = <<>> THEN rs
  ELSE rs \o IdSeq(SelectSeq(res.items, LAMBDA x : x.isDict))

append_results(rs, res) ==
  IF ~res.isList \/ res.items = <<>> THEN rs
  ELSE LastN(rs \o IdSeq(SelectSeq(res.items, LAMBDA x : x.isDict)), config.max_results)

\* variant of prune_keep: the acknowledgement set is ignored
prune_keep_unacked(item, ackIds, t) == ~(t - item.ts > item.ttl)

\* variant of prune_keep: an action is dropped as soon as its age reaches its ttl
prune_keep_strict(item, ackIds, t) == ~(item.id \in ackIds) /\ ~(t - item.ts >= item.ttl)

prune_keep(item, ackIds, t) == ~(item.id \in ackIds) /\ ~(t - item.ts > item.ttl)
prune_queue(q, ackIds, t) == SelectSeq(q, LAMBDA it : prune_keep(it, ackIds, t))

\* variants of collect_due: without the resend gate; with the gate one second too long
collect_due_always(item, t) == TRUE
collect_due_late(item, t) ==
  ~(item.sent_ts # 0 /\ t - item.sent_ts <= config.resend_after)

collect_due(item, t) == ~(item.sent_ts # 0 /\ t - item.sent_ts < config.resend_after)
\* variants of collect_actions: only the oldest due action; only the newest
collect_actions_head(q, t) ==
  LET due == IdSeq(SelectSeq(q, LAMBDA it : collect_due(it, t)))
  IN IF due = <<>> THEN due ELSE <<Head(due)>>
collect_actions_newest(q, t) ==
  LET due == IdSeq(SelectSeq(q, LAMBDA it : collect_due(it, t)))
  IN IF due = <<>> THEN due ELSE <<due[Len(due)]>>

collect_actions(q, t) == IdSeq(SelectSeq(q, LAMBDA it : collect_due(it, t)))
collect_mark(q, t) ==
  [i \in DOMAIN q |-> IF collect_due(q[i], t) THEN [q[i] EXCEPT !.sent_ts = t] ELSE q[i]]

\* variant of ack_ids: the explicit ack list alone
ack_ids_explicit(p) == IF p.ack.isList THEN {x \in Range(p.ack.items) : x # 0} ELSE {}

ack_ids(p) ==
  (IF p.ack.isList THEN {x \in Range(p.ack.items) : x # 0} ELSE {})
  \cup (IF p.results.isList
        THEN {x.id : x \in {y \in Range(p.results.items) : y.isDict /\ y.id # 0}}
        ELSE {})

pick_device == IF last_device_id # NoDev THEN last_device_id
               ELSE IF devices # <<>> THEN devices[1] ELSE NoDev

Included(acts) == [a \in ActionIds |-> IF a \in Range(acts) THEN now ELSE inclAt[a]]
Previous(acts) == [a \in ActionIds |-> IF a \in Range(acts) THEN inclAt[a] ELSE prevIncl[a]]

NoOp == [op |-> "tick", dev |-> NoDev, conn |-> NoConn, status |-> 0,
         actions |-> <<>>, wrote |-> FALSE]
Op(o, d, c, st, acts, w) == [op |-> o, dev |-> d, conn |-> c, status |-> st,
                             actions |-> acts, wrote |-> w]

\* DEFAULT_CONFIG with the limits scaled down; every limit is at least 1
Config(tok, mq, mr) == [auth_token |-> tok, max_queue |-> mq, max_logs |-> 2,
                        max_results |-> mr, resend_after |-> 1]
Configs == {Config(tok, mq, mr) : tok \in {"", ConfigToken}, mq \in {1, 2}, mr \in {1, 2}}

Init ==
  /\ now = 1
  /\ config \in Configs
  /\ devices = <<>>
  /\ last_seen = [d \in Devices |-> 0]
  /\ info = [d \in Devices |-> {}]
  /\ queue = [d \in Devices |-> <<>>]
  /\ logs = [d \in Devices |-> <<>>]
  /\ results = [d \in Devices |-> <<>>]
  /\ ws = [d \in Devices |-> NoConn]
  /\ last_device_id = NoDev
  /\ alive = [c \in Conns |-> TRUE]
  /\ conn_device_id = [c \in Conns |-> NoDev]
  /\ pc = [c \in Conns |-> "recv"]
  /\ resp = [c \in Conns |-> [status |-> 0, dev |-> NoDev, actions |-> <<>>]]
  /\ pushes = {}
  /\ next_id = 1
  /\ issued = [a \in ActionIds |-> [dev |-> NoDev, ts |-> 0, ttl |-> 0]]
  /\ inclAt = [a \in ActionIds |-> 0]
  /\ prevIncl = [a \in ActionIds |-> 0]
  /\ acked = {}
  /\ evicted = {}
  /\ undelivered = {}
  /\ enqSince = [d \in Devices |-> <<>>]
  /\ last = NoOp
  /\ sock = <<>>
  /\ lock = {}
  /\ writers = [t \in Threads |-> NoFrame]
  /\ sent = NoSent
  /\ got = NoText
  /\ waiter = NoWait
  /\ owner = {}

\* the clock advances
Tick ==
  /\ now < MaxTime
  /\ now' = now + 1
  /\ last' = NoOp
  /\ UNCHANGED <<config, wire, registry, connvars, next_id, history>>


\* ---------------------------------------------------------------------------
\* BridgeState.handle_sync
\* ---------------------------------------------------------------------------
\* variant of sync_status: the device id is looked at before the token
sync_status_device_first(p) ==
  IF ~p.isDict THEN 400
  ELSE IF p.device_id = NoDev THEN 400
  ELSE IF config.auth_token # "" /\ p.token # config.auth_token THEN 401
  ELSE 200

\* the "error" member of a rejection
sync_error(p) ==
  IF ~p.isDict THEN "invalid_payload"
  ELSE IF config.auth_token # "" /\ p.token # config.auth_token THEN "unauthorized"
  ELSE IF p.device_id = NoDev THEN "missing_device_id"
  ELSE ""

sync_status(p) ==
  IF ~p.isDict THEN 400
  ELSE IF config.auth_token # "" /\ p.token # config.auth_token THEN 401
  ELSE IF p.device_id = NoDev THEN 400
  ELSE 200

\* the actions of the response: prune by the ack set, then collect what is due
\* variant of sync_actions: collects from the queue as it was before the prune
sync_actions_unpruned(p) ==
  IF sync_status(p) = 200 THEN collect_actions(queue[p.device_id], now) ELSE <<>>

sync_actions(p) ==
  IF sync_status(p) = 200
  THEN collect_actions(prune_queue(queue[p.device_id], ack_ids(p), now), now)
  ELSE <<>>

\* the critical section of handle_sync, entered for an accepted payload only
sync_apply(p) ==
  LET d == p.device_id
      pruned == prune_queue(queue[d], ack_ids(p), now)
  IN /\ devices' = get_device(d)
     /\ last_seen' = [last_seen EXCEPT ![d] = now]
     /\ info' = [info EXCEPT ![d] = IF p.info.isDict THEN p.info.map ELSE @]
     /\ last_device_id' = d
     /\ logs' = [logs EXCEPT ![d] = IF p.logs.isList THEN sync_logs(@, p.logs.items) ELSE @]
     /\ results' = [results EXCEPT ![d] = append_results(@, p.results)]
     /\ queue' = [queue EXCEPT ![d] = collect_mark(pruned, now)]
     /\ inclAt' = Included(collect_actions(pruned, now))
     /\ prevIncl' = Previous(collect_actions(pruned, now))
     /\ enqSince' = [enqSince EXCEPT ![d] = <<>>]
     /\ acked' = acked \cup {a \in ack_ids(p) \cap ActionIds : issued[a].dev = d}
     /\ undelivered' = {a \in undelivered : issued[a].dev # d}
     /\ UNCHANGED <<ws, issued, evicted>>

handle_sync(p) ==
  IF sync_status(p) = 200 THEN sync_apply(p)
  ELSE UNCHANGED <<registry, history>>

\* POST /sync: one request, one call of handle_sync
HttpSyncP(p) ==
  /\ handle_sync(p)
  /\ last' = Op("http_sync", p.device_id, NoConn, sync_status(p), sync_actions(p), TRUE)
  /\ UNCHANGED <<now, config, wire, connvars, next_id>>

HttpSync(P) == \E p \in P : HttpSyncP(p)

\* ---------------------------------------------------------------------------
\* BridgeState.queue_action
\* ---------------------------------------------------------------------------
\* variant of queue_trim: keeps the oldest max_queue items
queue_trim_head(q) == IF Len(q) > config.max_queue THEN SubSeq(q, 1, config.max_queue) ELSE q

queue_trim(q) == LastN(q, config.max_queue)

\* the connection queue_action pushes to: device["ws"] when it is set and alive
push_conn(d) == IF ws[d] # NoConn /\ alive[ws[d]] THEN ws[d] ELSE NoConn

\* the critical section of queue_action for the resolved device d; others are the
\* other queue_action threads
queue_locked(d, ttl, limit, others) ==
    LET item == [id |-> next_id, ttl |-> ttl, ts |-> now, sent_ts |-> 0]
        q == queue_trim(Append(queue[d], item))
        c == push_conn(d)
        acts == IF c # NoConn THEN collect_actions(q, now) ELSE <<>>
    IN /\ next_id <= limit
       /\ c # NoConn => Cardinality(others) < MaxPush
       /\ devices' = get_device(d)
       /\ queue' = [queue EXCEPT ![d] = IF c # NoConn THEN collect_mark(q, now) ELSE q]
       /\ logs' = [logs EXCEPT ![d] = log_device(@, "queued")]
       /\ pushes' = IF c # NoConn /\ acts # <<>>
                    THEN others \cup {[conn |-> c, dev |-> d, actions |-> acts, pc |-> "send"]}
                    ELSE others
       /\ next_id' = next_id + 1
       /\ issued' = [issued EXCEPT ![next_id] = [dev |-> d, ts |-> now, ttl |-> ttl]]
       /\ inclAt' = Included(acts)
       /\ prevIncl' = Previous(acts)
       /\ enqSince' = [enqSince EXCEPT ![d] = Append(@, next_id)]
       /\ last' = Op("queue", d, c, 200, acts, FALSE)
       /\ UNCHANGED <<now, config, wire, last_seen, info, results, ws, last_device_id,
                      alive, conn_device_id, pc, resp, acked, evicted, undelivered>>

\* queue_action with the resolution of "last" and the critical section in one step
queue_none ==
  /\ last' = Op("queue_none", NoDev, NoConn, 0, <<>>, FALSE)
  /\ UNCHANGED <<now, config, wire, registry, connvars, next_id, history>>

queue_action(raw, ttl, limit) ==
  LET d == IF raw = "last" THEN pick_device ELSE raw IN
  IF d = NoDev THEN queue_none ELSE queue_locked(d, ttl, limit, pushes)

\* queue_action("last", ...) as the code runs it: _pick_device reads the last-device
\* reference and the device table before the lock is taken (queue_pick); the critical
\* section follows as a step of its own (queue_enter)
queue_pick(limit) ==
  IF pick_device = NoDev THEN queue_none
  ELSE /\ next_id <= limit
       /\ \A p \in pushes : p.pc # "lock"
       /\ pushes' = pushes \cup {[conn |-> NoConn, dev |-> pick_device, actions |-> <<>>,
                                  pc |-> "lock"]}
       /\ last' = Op("pick", pick_device, NoConn, 0, <<>>, FALSE)
       /\ UNCHANGED <<now, config, wire, registry, alive, conn_device_id, pc, resp, next_id,
                      history>>

queue_enter(ttl, limit) ==
  \E p \in pushes : p.pc = "lock" /\ queue_locked(p.dev, ttl, limit, pushes \ {p})

QueueAction(D, T, limit) == \E raw \in D, ttl \in T : queue_action(raw, ttl, limit)

\* ---------------------------------------------------------------------------
\* BridgeState.get_result
\* ---------------------------------------------------------------------------
\* index of the first stored result with this id, 0 for None
find_result_index(rs, x) ==
  IF \E i \in DOMAIN rs : rs[i] = x
  THEN CHOOSE i \in DOMAIN rs : rs[i] = x /\ \A j \in 1..(i - 1) : rs[j] # x
  ELSE 0

\* list.pop(idx)
pop_index(rs, idx) == SubSeq(rs, 1, idx - 1) \o SubSeq(rs, idx + 1, Len(rs))

\* status 200 with the entry, or 404 for the None that do_GET turns into not_found
\* (the operation record keeps the requested id in `actions` and pop in `wrote`)
\* the critical section of get_result for the device d
result_locked(d, x, pop) ==
  LET idx == find_result_index(results[d], x) IN
  /\ devices' = get_device(d)
  /\ results' = [results EXCEPT ![d] = IF idx # 0 /\ pop THEN pop_index(@, idx) ELSE @]

get_result(raw, x, pop) ==
  LET d == IF raw = "last" THEN pick_device ELSE raw IN
  IF d = NoDev
  THEN /\ last' = Op("get_result", NoDev, NoConn, 404, <<x>>, pop)
       /\ UNCHANGED <<now, config, wire, registry, connvars, next_id, history>>
  ELSE
    /\ result_locked(d, x, pop)
    /\ last' = Op("get_result", d, NoConn,
                  IF find_result_index(results[d], x) # 0 THEN 200 ELSE 404, <<x>>, pop)
    /\ UNCHANGED <<now, config, wire, last_seen, info, queue, logs, ws, last_device_id,
                   connvars, next_id, history>>

GetResult(D, X) == \E raw \in D, x \in X, pop \in BOOLEAN : get_result(raw, x, pop)

\* ---------------------------------------------------------------------------
\* _WebSocketConn.close, BridgeState._bind_ws, _unbind_ws, _send_ws_actions
\* ---------------------------------------------------------------------------
\* send_frame: the opcodes it puts on the stream, given conn.alive at the call
send_frame(isAlive, opcode) == IF ~isAlive THEN <<>> ELSE <<opcode>>

\* close: the new alive flags; the frames it writes (alive is cleared before
\* send_frame(0x8) is called); whether it goes on to sock.close()
close(c) == [alive EXCEPT ![c] = FALSE]

\* variant of close_frames: the close frame is sent before alive is cleared
close_frames_while_alive(c) == IF ~alive[c] THEN <<>> ELSE send_frame(TRUE, 8)

close_frames(c) == IF ~alive[c] THEN <<>> ELSE send_frame(FALSE, 8)
close_stream(c) == alive[c]

\* variant of unbind_ws: the binding is cleared whichever connection holds it
unbind_ws_unguarded(c) ==
  [d \in Devices |-> IF d = conn_device_id[c] THEN NoConn ELSE ws[d]]

unbind_ws(c) ==
  [d \in Devices |-> IF d = conn_device_id[c] /\ d \in Range(devices) /\ ws[d] = c
                     THEN NoConn ELSE ws[d]]

\* variant of bind_evicts: the connection bound before is left open
bind_evicts_never(d, c) == FALSE

\* the connection _bind_ws closes: the one bound before, unless it is conn itself
bind_evicts(d, c) == ws[d] # NoConn /\ ws[d] # c

\* the frames old.close() writes inside _bind_ws's critical section
bind_frames(d, c) == IF bind_evicts(d, c) THEN close_frames(ws[d]) ELSE <<>>

bind_ws(d, c) ==
  /\ devices' = get_device(d)
  /\ alive' = IF bind_evicts(d, c) THEN close(ws[d]) ELSE alive
  /\ evicted' = IF bind_evicts(d, c) THEN evicted \cup {ws[d]} ELSE evicted
  /\ ws' = [ws EXCEPT ![d] = c]

\* handle_ws, except branch: the error is logged against conn.device_id
ws_error(c) ==
  LET d == conn_device_id[c] IN
  IF d = NoDev THEN UNCHANGED <<devices, logs>>
  ELSE /\ devices' = get_device(d)
       /\ logs' = [logs EXCEPT ![d] = log_device(@, "ws error")]

\* _send_ws_actions: conn.send_json outside the registry lock. send_frame returns
\* without writing when the connection is no longer alive; a failed write closes it.
PushSend ==
  \E p \in pushes, ok \in BOOLEAN :
    /\ p.pc = "send"
    /\ IF ~alive[p.conn]
       THEN /\ ok
            /\ pushes' = pushes \ {p}
            /\ last' = Op("push", p.dev, p.conn, 200, p.actions, FALSE)
            /\ undelivered' = undelivered \cup Range(p.actions)
            /\ UNCHANGED alive
       ELSE IF ok
       THEN /\ pushes' = pushes \ {p}
            /\ last' = Op("push", p.dev, p.conn, 200, p.actions, TRUE)
            /\ UNCHANGED <<alive, undelivered>>
       ELSE /\ pushes' = (pushes \ {p}) \cup {[p EXCEPT !.pc = "unbind"]}
            /\ alive' = close(p.conn)
            /\ last' = Op("push_failed", p.dev, p.conn, 200, p.actions, FALSE)
            /\ undelivered' = undelivered \cup Range(p.actions)
    /\ UNCHANGED <<now, config, wire, registry, conn_device_id, pc, resp, next_id,
                   issued, inclAt, prevIncl, enqSince, acked, evicted>>

PushUnbind ==
  \E p \in pushes :
    /\ p.pc = "unbind"
    /\ ws' = unbind_ws(p.conn)
    /\ pushes' = pushes \ {p}
    /\ last' = Op("push_unbind", p.dev, p.conn, 0, <<>>, FALSE)
    /\ UNCHANGED <<now, config, wire, devices, last_seen, info, queue, logs, results,
                   last_device_id, alive, conn_device_id, pc, resp, next_id, history>>

\* ---------------------------------------------------------------------------
\* BridgeState.handle_ws: the worker of one accepted WebSocket connection
\* ---------------------------------------------------------------------------
NoResp == [status |-> 0, dev |-> NoDev, actions |-> <<>>]

\* while conn.alive: the loop ends once the connection was closed by another thread;
\* a read on the closed socket may instead raise, which the except branch logs
WsLoopExit(c) ==
  /\ pc[c] = "recv" /\ ~alive[c]
  /\ \E raised \in BOOLEAN :
       IF raised THEN ws_error(c) ELSE UNCHANGED <<devices, logs>>
  /\ pc' = [pc EXCEPT ![c] = "unbind"]
  /\ last' = Op("ws_exit", conn_device_id[c], c, 0, <<>>, FALSE)
  /\ UNCHANGED <<now, config, wire, last_seen, info, queue, results, ws, last_device_id,
                 alive, conn_device_id, resp, pushes, next_id, history>>

\* recv_text returns None: end of stream or timeout (closeFrame = FALSE), or a close
\* frame, which also clears conn.alive
WsRecvEnd(c) ==
  /\ pc[c] = "recv" /\ alive[c]
  /\ \E closeFrame \in BOOLEAN :
       alive' = IF closeFrame THEN [alive EXCEPT ![c] = FALSE] ELSE alive
  /\ pc' = [pc EXCEPT ![c] = "unbind"]
  /\ last' = Op("ws_end", conn_device_id[c], c, 0, <<>>, FALSE)
  /\ UNCHANGED <<now, config, wire, registry, conn_device_id, resp, pushes, next_id, history>>

\* a text frame that is not JSON: answer invalid_json and read on
WsRecvBadJson(c) ==
  /\ pc[c] = "recv" /\ alive[c]
  /\ \E ok \in BOOLEAN :
       IF ok
       THEN /\ pc' = pc
            /\ last' = Op("ws_invalid_json", conn_device_id[c], c, 0, <<>>, TRUE)
            /\ UNCHANGED <<devices, logs>>
       ELSE /\ ws_error(c)
            /\ pc' = [pc EXCEPT ![c] = "unbind"]
            /\ last' = Op("ws_invalid_json", conn_device_id[c], c, 0, <<>>, FALSE)
  /\ UNCHANGED <<now, config, wire, last_seen, info, queue, results, ws, last_device_id,
                 alive, conn_device_id, resp, pushes, next_id, history>>

\* a text frame holding JSON has been read; handle_sync is called next
WsRecvText(c) ==
  /\ pc[c] = "recv" /\ alive[c]
  /\ pc' = [pc EXCEPT ![c] = "sync"]
  /\ last' = Op("ws_recv", conn_device_id[c], c, 0, <<>>, FALSE)
  /\ UNCHANGED <<now, config, wire, registry, alive, conn_device_id, resp, pushes, next_id,
                 history>>

\* the device the connection is bound to after handle_sync:
\* response.get("device_id") or payload.get("device_id")
ws_bind_target(p) == p.device_id

\* status, response = self.handle_sync(payload, client_ip); a payload that is not an
\* object has no .get and raises into the except branch
WsSyncP(c, p) ==
  /\ pc[c] = "sync"
  /\ IF ~p.isDict
     THEN /\ ws_error(c)
          /\ pc' = [pc EXCEPT ![c] = "unbind"]
          /\ resp' = resp
          /\ last' = Op("ws_sync", conn_device_id[c], c, sync_status(p), <<>>, FALSE)
          /\ UNCHANGED <<last_seen, info, queue, results, ws, last_device_id, history>>
     ELSE /\ handle_sync(p)
          /\ resp' = [resp EXCEPT ![c] = [status |-> sync_status(p),
                                          dev |-> ws_bind_target(p),
                                          actions |-> sync_actions(p)]]
          /\ pc' = [pc EXCEPT ![c] = IF ws_bind_target(p) # NoDev THEN "bind" ELSE "send"]
          /\ last' = Op("ws_sync", p.device_id, c, sync_status(p), sync_actions(p), FALSE)
  /\ UNCHANGED <<now, config, wire, alive, conn_device_id, pushes, next_id>>

WsSync(c, P) == \E p \in P : WsSyncP(c, p)

\* conn.device_id = str(device_id); self._bind_ws(conn.device_id, conn)
WsBind(c) ==
  /\ pc[c] = "bind"
  /\ conn_device_id' = [conn_device_id EXCEPT ![c] = resp[c].dev]
  /\ bind_ws(resp[c].dev, c)
  /\ pc' = [pc EXCEPT ![c] = "send"]
  /\ last' = Op("ws_bind", resp[c].dev, c, resp[c].status, <<>>,
                 bind_frames(resp[c].dev, c) # <<>>)
  /\ UNCHANGED <<now, config, wire, last_seen, info, queue, logs, results, last_device_id,
                 resp, pushes, next_id, issued, inclAt, prevIncl, enqSince, acked,
                 undelivered>>

\* conn.send_json(response)
WsSend(c) ==
  /\ pc[c] = "send"
  /\ \E ok \in BOOLEAN :
       IF ~alive[c]
       THEN /\ ok
            /\ pc' = [pc EXCEPT ![c] = "recv"]
            /\ last' = Op("ws_send", resp[c].dev, c, resp[c].status, resp[c].actions, FALSE)
            /\ UNCHANGED <<devices, logs>>
       ELSE IF ok
       THEN /\ pc' = [pc EXCEPT ![c] = "recv"]
            /\ last' = Op("ws_send", resp[c].dev, c, resp[c].status, resp[c].actions, TRUE)
            /\ UNCHANGED <<devices, logs>>
       ELSE /\ ws_error(c)
            /\ pc' = [pc EXCEPT ![c] = "unbind"]
            /\ last' = Op("ws_send_failed", resp[c].dev, c, resp[c].status, resp[c].actions,
                          FALSE)
  /\ resp' = [resp EXCEPT ![c] = NoResp]
  /\ UNCHANGED <<now, config, wire, last_seen, info, queue, results, ws, last_device_id,
                 alive, conn_device_id, pushes, next_id, history>>

\* finally: self._unbind_ws(conn)
WsUnbind(c) ==
  /\ pc[c] = "unbind"
  /\ ws' = unbind_ws(c)
  /\ pc' = [pc EXCEPT ![c] = "close"]
  /\ last' = Op("ws_unbind", conn_device_id[c], c, 0, <<>>, FALSE)
  /\ UNCHANGED <<now, config, wire, devices, last_seen, info, queue, logs, results,
                 last_device_id, alive, conn_device_id, resp, pushes, next_id, history>>

\* finally: conn.close()
WsClose(c) ==
  /\ pc[c] = "close"
  /\ alive' = close(c)
  /\ pc' = [pc EXCEPT ![c] = "done"]
  /\ last' = Op("ws_close", conn_device_id[c], c, 0, <<>>, close_frames(c) # <<>>)
  /\ UNCHANGED <<now, config, wire, registry, conn_device_id, resp, pushes, next_id, history>>

\* one pass of the loop for a sync message
WsExchange(C, P) ==
  \E c \in C :
    \/ WsRecvText(c)
    \/ WsSync(c, P)
    \/ WsBind(c)
    \/ WsSend(c)

\* the other frames, and the end of the connection
WsTeardown(C) ==
  \E c \in C :
    \/ WsLoopExit(c)
    \/ WsRecvEnd(c)
    \/ WsRecvBadJson(c)
    \/ WsUnbind(c)
    \/ WsClose(c)

HandleWs(C, P) == WsExchange(C, P) \/ WsTeardown(C)

\* ---------------------------------------------------------------------------
\* BridgeHandler.do_POST: /sync and /queue, with _read_json_body and _require_local
\* ---------------------------------------------------------------------------
MAX_BODY_BYTES == 4 * 1024 * 1024

\* a request: the declared Content-Length, what the body is (not JSON, or the JSON value
\* null, a JSON value that is no object, an object), whether the client address is
\* local, and for /queue the fields of the object
Lengths == {0, 1, MAX_BODY_BYTES, MAX_BODY_BYTES + 1}
JsonKinds == {"invalid", "null", "list", "dict"}
TtlGiven(v) == [given |-> TRUE, isNum |-> TRUE, val |-> v]
TtlAbsent == [given |-> FALSE, isNum |-> TRUE, val |-> 0]
TtlText == [given |-> TRUE, isNum |-> FALSE, val |-> 0]
BaseReq == [length |-> 1, json |-> "dict", local |-> TRUE, device_id |-> "dev1",
            action |-> "tap", ttl |-> TtlGiven(2)]
PostReqs ==
  {[BaseReq EXCEPT !.length = l] : l \in Lengths}
  \cup {[BaseReq EXCEPT !.json = k] : k \in JsonKinds}
  \cup {[BaseReq EXCEPT !.local = FALSE], [BaseReq EXCEPT !.local = FALSE, !.json = "list"]}
  \cup {[BaseReq EXCEPT !.device_id = d] : d \in {"", "last"}}
  \cup {[BaseReq EXCEPT !.action = ""], [BaseReq EXCEPT !.action = "", !.ttl = TtlText]}
  \cup {[BaseReq EXCEPT !.ttl = t] : t \in {TtlAbsent, TtlText}}

\* _read_json_body: the status it answers itself, 0 when it returns the parsed value
read_json_body(req) ==
  IF req.length <= 0 \/ req.length > MAX_BODY_BYTES THEN 413
  ELSE IF req.json = "invalid" THEN 400
  ELSE 0

\* _require_local with allow_remote_queue off and no admin token
require_local(req) == req.local

\* a request that ends in the handler, with the status it answered (0: no answer)
post_done(o, st) ==
  /\ last' = Op(o, NoDev, NoConn, st, <<>>, st # 0)
  /\ UNCHANGED <<now, config, wire, registry, connvars, next_id, history>>

\* POST /sync; a parsed value of None is taken for "already answered"
do_POST_sync(req, p) ==
  IF read_json_body(req) # 0 THEN post_done("post_sync", read_json_body(req))
  ELSE IF req.json = "null" THEN post_done("post_sync", 0)
  ELSE HttpSyncP(IF req.json = "dict" THEN p ELSE NotADict)

\* POST /queue; payload.get on a value that is no object raises, int() of a ttl that is
\* no number raises, both before the action is looked at
do_POST_queue(req, limit) ==
  IF read_json_body(req) # 0 THEN post_done("post_queue", read_json_body(req))
  ELSE IF req.json = "null" THEN post_done("post_queue", 0)
  ELSE IF ~require_local(req) THEN post_done("post_queue", 403)
  ELSE IF req.json # "dict" THEN post_done("post_queue_raised", 0)
  ELSE IF ~req.ttl.isNum THEN post_done("post_queue_raised", 0)
  ELSE IF req.action = "" THEN post_done("post_queue", 400)
  ELSE queue_action(IF req.device_id = "" THEN "last" ELSE req.device_id,
                    IF req.ttl.given /\ req.ttl.val # 0 THEN req.ttl.val ELSE 300, limit)

PostSync(R, P) == \E req \in R, p \in P : do_POST_sync(req, p)
PostQueue(R, limit) == \E req \in R : do_POST_queue(req, limit)

\* ---------------------------------------------------------------------------
\* Specifications.  Each one drives the same operations with its own set of
\* requests, devices and connections.
\* ---------------------------------------------------------------------------
MkPayload(t, d, b) == [isDict |-> TRUE, token |-> t, device_id |-> d, info |-> b.info,
                       logs |-> b.logs, results |-> b.results, ack |-> b.ack]

\* SpecTime: one device, no token configured, a running clock: resend, expiry, delivery
AckBodies == {Body(NoInfo, NoList, NoList, a) : a \in AckIn}
TimePayloads == {MkPayload("none", "dev1", b) : b \in AckBodies}
TimeTtls == {1, 2}

InitTime == Init /\ config \in {Config("", mq, 2) : mq \in {1, 2}}

NextTime ==
  \/ Tick
  \/ HttpSync(TimePayloads)
  \/ QueueAction({"dev1"}, TimeTtls, MaxTimed)
  \/ PushSend
  \/ PushUnbind
  \/ WsExchange({"c1"}, TimePayloads)

SpecTime == InitTime /\ [][NextTime]_vars

\* SpecQueue: the clock stands still; acknowledgement by ack and by result, capacity
QueueBodies == {Body(NoInfo, NoList, r, NoList) : r \in ResultsIn}
               \cup {Body(NoInfo, NoList, NoList, a) : a \in AckIn}
               \cup {Body(NoInfo, NoList, [isList |-> TRUE, items |-> <<ResItem(1)>>],
                           [isList |-> TRUE, items |-> <<2>>])}
QueuePayloads == {MkPayload("none", "dev1", b) : b \in QueueBodies}

InitQueue == Init /\ config = Config("", 2, 1)

NextQueue ==
  \/ HttpSync(QueuePayloads)
  \/ QueueAction({"dev1", "last"}, {2}, MaxActions)
  \/ PushSend
  \/ PushUnbind
  \/ HandleWs({"c1"}, QueuePayloads)

SpecQueue == InitQueue /\ [][NextQueue]_vars

\* SpecAck: the clock stands still; what a sync acknowledges, over both transports
InitAck == Init /\ config = Config("", 2, 1)

NextAck ==
  \/ HttpSync(QueuePayloads)
  \/ QueueAction({"dev1"}, {2}, MaxTimed)
  \/ PushSend
  \/ PushUnbind
  \/ WsExchange({"c1"}, QueuePayloads)

SpecAck == InitAck /\ [][NextAck]_vars

\* SpecResult: the clock stands still; results reported, fetched and popped; info
ResultBodies == {Body(NoInfo, NoList, [isList |-> TRUE, items |-> <<ResItem(a)>>], NoList) :
                   a \in 1..MaxTimed}
                \cup {Body(NoInfo, NoList, NoList, [isList |-> TRUE, items |-> <<a>>]) :
                        a \in 1..MaxTimed}
                \cup {Body(i, NoList, NoList, NoList) : i \in InfoIn}
ResultPayloads == {MkPayload("none", "dev1", b) : b \in ResultBodies}

InitResult == Init /\ config = Config("", 2, 2)

NextResult ==
  \/ HttpSync(ResultPayloads)
  \/ QueueAction({"dev1"}, {2}, MaxTimed)
  \/ GetResult({"dev1", "dev2", "last"}, 1..MaxTimed)

SpecResult == InitResult /\ [][NextResult]_vars

\* SpecCap: syncs that report more logs and more results than the limits, enqueues
\* beyond the queue's capacity
CapBodies == {Body(NoInfo, [isList |-> TRUE, items |-> <<"a", "", "b", "c">>], NoList, NoList),
              Body(NoInfo, [isList |-> TRUE, items |-> <<"boot">>],
                   [isList |-> TRUE, items |-> <<ResItem(1), ResItem(2)>>], NoList),
              Body(NoInfo, NoList,
                   [isList |-> TRUE,
                    items |-> <<ResItem(3), [isDict |-> FALSE, id |-> 0], ResItem(2), ResItem(1)>>],
                   NoList)}
CapPayloads == {MkPayload("none", "dev1", b) : b \in CapBodies}

InitCap == Init /\ config \in {Config("", 1, 1), Config("", 2, 2)}

NextCap ==
  \/ HttpSync(CapPayloads)
  \/ QueueAction({"dev1"}, {2}, MaxActions)

SpecCap == InitCap /\ [][NextCap]_vars

\* SpecPost: the HTTP front of /sync and /queue: body length, body kind, fields
InitPost == Init /\ config = Config("", 2, 1)

NextPost ==
  \/ PostSync(PostReqs, ResultPayloads)
  \/ PostQueue(PostReqs, MaxTimed)

SpecPost == InitPost /\ [][NextPost]_vars

\* ---- wait_result: get_result polled until found or timed out ----
\* the waiter's clock counts half seconds from the call; asyncio.sleep(0.5) returns
\* after one half second or later
sleep_advance == {1, 2}

\* variant of wait_end: the timeout taken as it is given
wait_end_raw(timeout) == 2 * timeout

\* end - time.time() at the call, in half seconds: max(1, timeout) seconds
wait_end(timeout) == 2 * (IF timeout > 1 THEN timeout ELSE 1)

\* end = time.time() + max(1, timeout)
WaitStart(D, X, T) ==
  /\ waiter.pc = "idle"
  /\ \E d \in D, x \in X, timeout \in T, pop \in BOOLEAN :
       waiter' = [pc |-> "test", dev |-> d, id |-> x, pop |-> pop, timeout |-> timeout,
                  end |-> wait_end(timeout), t |-> 0, fresh |-> TRUE, found |-> FALSE]
  /\ last' = Op("wait_start", NoDev, NoConn, 0, <<>>, FALSE)
  /\ UNCHANGED <<now, config, registry, connvars, next_id, history, sock, lock, writers,
                 sent, got, owner>>

\* while time.time() < end; return None when it fails
WaitTest ==
  /\ waiter.pc = "test"
  /\ waiter' = [waiter EXCEPT !.pc = IF waiter.t < waiter.end THEN "poll" ELSE "done"]
  /\ last' = Op("wait_test", waiter.dev, NoConn, 0, <<>>, FALSE)
  /\ UNCHANGED <<now, config, registry, connvars, next_id, history, sock, lock, writers,
                 sent, got, owner>>

\* item = self.get_result(device_id, action_id, pop=pop); return item if it is not None
WaitPoll ==
  /\ waiter.pc = "poll"
  /\ result_locked(waiter.dev, waiter.id, waiter.pop)
  /\ LET hit == find_result_index(results[waiter.dev], waiter.id) # 0 IN
     /\ waiter' = [waiter EXCEPT !.pc = IF hit THEN "done" ELSE "sleep",
                                 !.found = hit, !.fresh = FALSE]
     /\ last' = Op("wait_poll", waiter.dev, NoConn, IF hit THEN 200 ELSE 404,
                   <<waiter.id>>, waiter.pop)
  /\ UNCHANGED <<now, config, last_seen, info, queue, logs, ws, last_device_id, connvars,
                 next_id, history, sock, lock, writers, sent, got, owner>>

\* await asyncio.sleep(0.5)
WaitSleep ==
  /\ waiter.pc = "sleep"
  /\ \E k \in sleep_advance :
       waiter' = [waiter EXCEPT !.pc = "test", !.t = @ + k, !.fresh = TRUE]
  /\ last' = Op("wait_sleep", waiter.dev, NoConn, 0, <<>>, FALSE)
  /\ UNCHANGED <<now, config, registry, connvars, next_id, history, sock, lock, writers,
                 sent, got, owner>>

WaitStep == WaitTest \/ WaitPoll \/ WaitSleep

\* SpecWait: one wait_result call while the device reports results
WaitTimeouts == {0 - 1, 0, 1, 2}

NextWait ==
  \/ WaitStart(Devices, 1..MaxTimed, WaitTimeouts)
  \/ WaitStep
  \/ HttpSync(ResultPayloads)

InitWait == Init /\ config = Config("", 2, 2)

SpecWait == InitWait /\ [][NextWait]_vars /\ WF_vars(WaitStep)

\* ---- frames: _WebSocketConn.send_frame and _WebSocketConn.recv_text ----
\* a text is its sequence of code points, a byte string its sequence of bytes

\* b ^ k on bytes
RECURSIVE Xor(_, _)
Xor(a, b) ==
  IF a = 0 THEN b
  ELSE IF b = 0 THEN a
  ELSE ((a + b) % 2) + 2 * Xor(a \div 2, b \div 2)

\* struct.pack("!H", n) with w = 2, struct.pack("!Q", n) with w = 8: big-endian
RECURSIVE pack(_, _)
pack(n, w) == IF w = 0 THEN <<>> ELSE Append(pack(n \div 256, w - 1), n % 256)

\* struct.unpack("!H", bs)[0], struct.unpack("!Q", bs)[0]
RECURSIVE unpack(_)
unpack(bs) ==
  IF bs = <<>> THEN 0
  ELSE 256 * unpack(SubSeq(bs, 1, Len(bs) - 1)) + bs[Len(bs)]

\* str.encode("utf-8"), for code points below 0x800
encode_char(c) == IF c < 128 THEN <<c>> ELSE <<192 + (c \div 64), 128 + (c % 64)>>

RECURSIVE encode_range(_, _, _)
encode_range(t, lo, hi) ==
  IF lo > hi THEN <<>>
  ELSE IF lo = hi THEN encode_char(t[lo])
  ELSE LET mid == (lo + hi) \div 2
       IN  encode_range(t, lo, mid) \o encode_range(t, mid + 1, hi)

utf8_encode(t) == encode_range(t, 1, Len(t))

\* bytes.decode("utf-8"): utf8_valid is "does not raise"
is_continuation(b) == b >= 128 /\ b < 192
is_lead2(b) == b >= 194 /\ b < 224

utf8_valid(bs) ==
  \A i \in 1..Len(bs) :
    \/ bs[i] < 128
    \/ is_lead2(bs[i]) /\ i < Len(bs) /\ is_continuation(bs[i + 1])
    \/ is_continuation(bs[i]) /\ i > 1 /\ is_lead2(bs[i - 1])

utf8_decode(bs) ==
  LET starts == SelectSeq([i \in 1..Len(bs) |-> i], LAMBDA i : ~is_continuation(bs[i]))
  IN  [k \in 1..Len(starts) |->
         LET i == starts[k]
         IN  IF bs[i] < 128 THEN bs[i] ELSE (bs[i] - 192) * 64 + (bs[i + 1] - 128)]

\* send_frame's header: FIN and opcode, then the length in one of three tiers
frame_header_one_tier(opcode, length) == <<128 + (opcode % 16), length % 126>>

frame_header(opcode, length) ==
  <<128 + (opcode % 16)>> \o
  (IF length <= 125 THEN <<length>>
   ELSE IF length < 65536 THEN <<126>> \o pack(length, 2)
   ELSE <<127>> \o pack(length, 8))

\* the bytes send_frame hands to sendall
frame_bytes(opcode, payload) == frame_header(opcode, Len(payload)) \o payload

send_text(t) == frame_bytes(1, utf8_encode(t))

\* the masked form of a frame, as recv_text reads it: mask bit set, the 4-byte key
\* after the length, the payload XOR-ed with the key
mask_frame(f, key) ==
  LET len7 == f[2] % 128
      hdr == 2 + (IF len7 = 126 THEN 2 ELSE IF len7 = 127 THEN 8 ELSE 0)
  IN  <<f[1], f[2] + 128>> \o SubSeq(f, 3, hdr) \o key \o
      [i \in 1..(Len(f) - hdr) |-> Xor(f[hdr + i], key[((i - 1) % 4) + 1])]

Text(t) == [none |-> FALSE, text |-> t]

\* recv_text on a stream holding the bytes s; a short read (_recv_exact finding
\* fewer bytes than asked) returns None
recv_text(s) ==
  IF Len(s) < 2 THEN NoText
  ELSE
    LET opcode == s[1] % 16
        masked == s[2] >= 128
        len7 == s[2] % 128
        extn == IF len7 = 126 THEN 2 ELSE IF len7 = 127 THEN 8 ELSE 0
    IN  IF Len(s) < 2 + extn THEN NoText
        ELSE
          LET length == IF extn = 0 THEN len7 ELSE unpack(SubSeq(s, 3, 2 + extn))
              kpos == 3 + extn
              mask_key == IF masked /\ Len(s) >= kpos + 3
                          THEN SubSeq(s, kpos, kpos + 3) ELSE <<>>
              ppos == IF ~masked THEN kpos
                      ELSE IF mask_key # <<>> THEN kpos + 4 ELSE Len(s) + 1
              payload == IF masked /\ mask_key # <<>>
                         THEN SubSeq([i \in 1..length |->
                                        Xor(s[ppos + i - 1], s[kpos + ((i - 1) % 4)])],
                                     1, length)
                         ELSE SubSeq(s, ppos, ppos + length - 1)
          IN  IF length # 0 /\ ppos + length - 1 > Len(s) THEN NoText
              ELSE IF opcode = 8 THEN NoText
              ELSE IF opcode # 1 THEN Text(<<>>)
              ELSE IF utf8_valid(payload) THEN Text(utf8_decode(payload))
              ELSE Text(<<>>)

\* send_text(t) on an empty stream
SendText(T) ==
  /\ sock = <<>>
  /\ sent.none
  /\ \E t \in T :
       /\ sock' = send_text(t)
       /\ sent' = [none |-> FALSE, text |-> t, key |-> NoKey]
  /\ UNCHANGED <<bridge, lock, writers, got, waiter, owner>>

\* the peer's form of the same frame: masked with the key k
MaskFrame(K) ==
  /\ Len(sock) >= 2
  /\ sock[2] < 128
  /\ \E k \in K :
       /\ sock' = mask_frame(sock, k)
       /\ sent' = [sent EXCEPT !.key = k]
  /\ UNCHANGED <<bridge, lock, writers, got, waiter, owner>>

\* recv_text() on the stream
RecvText ==
  /\ sock # <<>>
  /\ got' = recv_text(sock)
  /\ sock' = <<>>
  /\ UNCHANGED <<bridge, lock, writers, sent, waiter, owner>>

\* SpecFrame: a text is framed, optionally masked, and read back
TextLens == {0, 1, 125, 126, 65535, 65536}
Chars == {97, 233}
Keys == {<<0, 0, 0, 0>>, <<55, 250, 33, 61>>, <<255, 1, 128, 2>>}
Texts == {[i \in 1..n |-> IF i % 2 = 1 THEN c[1] ELSE c[2]] :
            n \in TextLens, c \in Chars \X Chars}

NextFrame ==
  \/ SendText(Texts)
  \/ MaskFrame(Keys)
  \/ RecvText

InitFrame == Init /\ config = Config("", 2, 2)

SpecFrame == InitFrame /\ [][NextFrame]_vars

\* ---- concurrent send_frame calls on one connection ----
\* variant of lock_available: the connection's lock excludes nobody
lock_available_always == TRUE

\* threading.Lock: "with self.lock" is entered by one thread at a time
lock_available == lock = {}

WirePayloads == {<<97>>, <<98, 99>>}
Opcodes(t) == IF t = "worker" THEN {1, 10} ELSE {1}

\* send_frame up to "with self.lock": the header and the payload are put together
SendBuild(t) ==
  /\ writers[t].pc = "idle"
  /\ \E opcode \in Opcodes(t), payload \in WirePayloads :
       writers' = [writers EXCEPT ![t] = [pc |-> "built", n |-> 0,
                                          frame |-> frame_bytes(opcode, payload)]]
  /\ UNCHANGED <<bridge, sock, lock, sent, got, waiter, owner>>

\* "with self.lock" entered
SendAcquire(t) ==
  /\ writers[t].pc = "built"
  /\ lock_available
  /\ lock' = lock \cup {t}
  /\ writers' = [writers EXCEPT ![t].pc = "locked"]
  /\ UNCHANGED <<bridge, sock, sent, got, waiter, owner>>

\* sock.sendall(header + payload): the bytes reach the stream in one or more pieces
SendWrite(t) ==
  /\ writers[t].pc = "locked"
  /\ \E k \in 1..(Len(writers[t].frame) - writers[t].n) :
       /\ sock' = sock \o SubSeq(writers[t].frame, writers[t].n + 1, writers[t].n + k)
       /\ writers' = [writers EXCEPT ![t].n = @ + k]
  /\ UNCHANGED <<bridge, lock, sent, got, waiter, owner>>

\* "with self.lock" left, sendall having returned
SendRelease(t) ==
  /\ writers[t].pc = "locked"
  /\ writers[t].n = Len(writers[t].frame)
  /\ lock' = lock \ {t}
  /\ writers' = [writers EXCEPT ![t].pc = "done"]
  /\ UNCHANGED <<bridge, sock, sent, got, waiter, owner>>

\* SpecWrite: three threads send one frame each on the same connection
InitWrite == Init /\ config = Config("", 2, 2)

NextWrite ==
  \E t \in Threads :
    \/ SendBuild(t)
    \/ SendAcquire(t)
    \/ SendWrite(t)
    \/ SendRelease(t)

SpecWrite == InitWrite /\ [][NextWrite]_vars

\* ---- the registry lock and a connection's write lock, taken by the same threads ----
\* push1 and push2 run queue_action for a device bound to the connection c1; worker is
\* the handle_ws worker of a newer connection that binds the same device
LockedConn == "c1"

\* threading.Lock: "with self._lock" is entered by one thread at a time
registry_available == owner = {}

\* queue_action: "with self._lock" entered
EnqueueEnter(t) ==
  /\ t # "worker"
  /\ writers[t].pc = "idle"
  /\ registry_available
  /\ owner' = owner \cup {t}
  /\ writers' = [writers EXCEPT ![t].pc = "queue"]
  /\ UNCHANGED <<bridge, sock, lock, sent, got, waiter>>

\* queue_action: the lock released, then _send_ws_actions: conn.send_json builds the frame
EnqueueExit(t) ==
  /\ writers[t].pc = "queue"
  /\ owner' = owner \ {t}
  /\ \E payload \in WirePayloads :
       writers' = [writers EXCEPT ![t] = [pc |-> "built", n |-> 0,
                                          frame |-> frame_bytes(1, payload)]]
  /\ UNCHANGED <<bridge, sock, lock, sent, got, waiter>>

\* sendall raises: "with self.lock" is left; conn.close() finds alive set, clears it
\* and its send_frame returns before the lock
PushFail(t) ==
  /\ t # "worker"
  /\ writers[t].pc = "locked"
  /\ lock' = lock \ {t}
  /\ writers' = [writers EXCEPT ![t].pc = "unbind"]
  /\ UNCHANGED <<bridge, sock, sent, got, waiter, owner>>

\* _unbind_ws: "with self._lock" entered, then left
UnbindEnter(t) ==
  /\ writers[t].pc = "unbind"
  /\ registry_available
  /\ owner' = owner \cup {t}
  /\ writers' = [writers EXCEPT ![t].pc = "unbinding"]
  /\ UNCHANGED <<bridge, sock, lock, sent, got, waiter>>

UnbindExit(t) ==
  /\ writers[t].pc = "unbinding"
  /\ owner' = owner \ {t}
  /\ writers' = [writers EXCEPT ![t].pc = "done"]
  /\ UNCHANGED <<bridge, sock, lock, sent, got, waiter>>

\* _bind_ws: "with self._lock" entered
BindEnter(t) ==
  /\ t = "worker"
  /\ writers[t].pc = "idle"
  /\ registry_available
  /\ owner' = owner \cup {t}
  /\ writers' = [writers EXCEPT ![t].pc = "bind"]
  /\ UNCHANGED <<bridge, sock, lock, sent, got, waiter>>

\* _bind_ws: old.close() on the connection bound before; the frame that close's
\* send_frame would write has to pass "with self.lock" of that connection
BindClose(t) ==
  /\ writers[t].pc = "bind"
  /\ alive[LockedConn]
  /\ writers' = [writers EXCEPT ![t] =
                   IF close_frames(LockedConn) = <<>>
                   THEN [@ EXCEPT !.pc = "bound"]
                   ELSE [pc |-> "built", n |-> 0,
                         frame |-> frame_bytes(close_frames(LockedConn)[1], <<>>)]]
  /\ UNCHANGED <<bridge, sock, lock, sent, got, waiter, owner>>

\* _bind_ws: the lock released; the response goes to the worker's own connection
BindExit(t) ==
  /\ writers[t].pc = "bound"
  /\ owner' = owner \ {t}
  /\ writers' = [writers EXCEPT ![t].pc = "done"]
  /\ UNCHANGED <<bridge, sock, lock, sent, got, waiter>>

\* SpecLocks: two enqueues that push to c1 and a worker whose bind closes c1
NextLocks ==
  \E t \in Threads :
    \/ EnqueueEnter(t)
    \/ EnqueueExit(t)
    \/ SendAcquire(t)
    \/ SendWrite(t)
    \/ SendRelease(t)
    \/ PushFail(t)
    \/ UnbindEnter(t)
    \/ UnbindExit(t)
    \/ BindEnter(t)
    \/ BindClose(t)
    \/ BindExit(t)

SpecLocks == InitWrite /\ [][NextLocks]_vars

\* SpecLast: two devices syncing while enqueues and fetches address "last"
LastBodies == {Body(NoInfo, NoList, NoList, NoList),
               Body(NoInfo, NoList, [isList |-> TRUE, items |-> <<ResItem(1)>>], NoList)}
LastPayloads == {MkPayload("none", d, b) : d \in Devices, b \in LastBodies}

InitLast == Init /\ config = Config("", 2, 1)

NextLast ==
  \/ HttpSync(LastPayloads)
  \/ queue_pick(MaxActions)
  \/ queue_enter(2, MaxActions)
  \/ GetResult({"last"}, {1})

SpecLast == InitLast /\ [][NextLast]_vars

\* SpecConn: two connections competing for one device, pushes and their failures
ConnPayloads == {MkPayload("none", "dev1", Body(NoInfo, NoList, NoList, NoList))}

InitConn == Init /\ config = Config("", 2, 1)

NextConn ==
  \/ HttpSync(ConnPayloads)
  \/ QueueAction({"dev1"}, {2}, MaxTimed)
  \/ PushSend
  \/ PushUnbind
  \/ HandleWs(Conns, ConnPayloads)

SpecConn == InitConn /\ [][NextConn]_vars

\* SpecMulti: two devices and one connection that may sync for either of them
MultiPayloads == {MkPayload("none", d, Body(NoInfo, NoList, NoList, NoList)) : d \in Devices}

InitMulti == Init /\ config = Config("", 2, 1)

NextMulti ==
  \/ QueueAction({"dev1"}, {2}, 1)
  \/ PushSend
  \/ PushUnbind
  \/ HandleWs({"c1"}, MultiPayloads)

SpecMulti == InitMulti /\ [][NextMulti]_vars

\* SpecAuth: a token is configured; requests with the right, a wrong and no token
AuthBodies == {Body(i, l, NoList, NoList) : i \in InfoIn, l \in LogsIn}
              \cup {Body(NoInfo, NoList, [isList |-> TRUE, items |-> <<ResItem(1)>>],
                          [isList |-> TRUE, items |-> <<1>>])}
RightBodies == {Body(NoInfo, NoList, NoList, NoList),
                Body([isDict |-> TRUE, map |-> {<<"k1", 1>>}], NoList, NoList, NoList),
                Body(NoInfo, [isList |-> TRUE, items |-> <<"", "boot">>],
                     [isList |-> TRUE, items |-> <<ResItem(1)>>], NoList)}
AuthPayloads == {NotADict}
                \cup {MkPayload(t, d, b) : t \in {"wrong", "none"}, d \in DevIn, b \in AuthBodies}
                \cup {MkPayload(ConfigToken, d, b) : d \in {"dev1", NoDev}, b \in RightBodies}

InitAuth == Init /\ config = Config(ConfigToken, 2, 1)

NextAuth ==
  \/ HttpSync(AuthPayloads)
  \/ QueueAction(Devices, {2}, 1)
  \/ PushSend
  \/ PushUnbind
  \/ HandleWs({"c1"}, AuthPayloads)

SpecAuth == InitAuth /\ [][NextAuth]_vars

\* SpecIntruder: a token is configured; c1 sends it with every sync, c2 never does
Intruder == "c2"
TokenPayloads == {MkPayload(ConfigToken, "dev1", Body(NoInfo, NoList, NoList, NoList))}
NoTokenPayloads == {MkPayload(t, "dev1", Body(NoInfo, NoList, NoList, NoList)) :
                      t \in {"wrong", "none"}}

NextIntruder ==
  \/ QueueAction({"dev1"}, {2}, MaxTimed)
  \/ PushSend
  \/ PushUnbind
  \/ HandleWs(Conns \ {Intruder}, TokenPayloads)
  \/ HandleWs({Intruder}, NoTokenPayloads)

SpecIntruder == InitAuth /\ [][NextIntruder]_vars

\* SpecValid: a token is configured; handle_sync called by both transports
NextValid ==
  \/ HttpSync(AuthPayloads)
  \/ WsExchange({"c1"}, AuthPayloads)

SpecValid == InitAuth /\ [][NextValid]_vars

\* ---------------------------------------------------------------------------
\* Claims
\* ---------------------------------------------------------------------------
SyncOps == {"http_sync", "ws_sync"}
\* the step just taken ran handle_sync to its end for an accepted payload
SyncDone(l) == l.op \in SyncOps /\ l.status = 200
\* the step just taken ran _collect_actions: an accepted sync, or an enqueue that found
\* a live bound connection
CollectDone(l) == SyncDone(l) \/ (l.op = "queue" /\ l.conn # NoConn)
Expired(a, t) == t - issued[a].ts > issued[a].ttl

\* C1 (as claimed): with a token configured, a sync with a wrong or missing token is
\* answered 401 and neither handle_sync nor the transport's processing of that message
\* (for a WebSocket message: the bind that follows) changes the registry: no device
\* record, queue, log, result, info, last-seen, last-device reference or binding.
C1_UnauthorizedLeavesRegistry ==
  [][(last'.status = 401 /\ last'.op \in {"http_sync", "ws_sync", "ws_bind"})
       => UNCHANGED registry]_vars

\* C2: an accepted sync whose results list holds an object with id A leaves A out of
\* the device's queue, whatever its ack list; the queue afterwards is the previous
\* queue without the explicit ack ids, the reported result ids and the expired actions.
ExplicitAcks(p) == IF p.ack.isList THEN Range(p.ack.items) \ {0} ELSE {}
ReportedIds(p) ==
  IF p.results.isList
  THEN {p.results.items[i].id : i \in {j \in DOMAIN p.results.items : p.results.items[j].isDict}}
       \ {0}
  ELSE {}
C2_ResultAcknowledges ==
  [][SyncDone(last')
       => \A p \in QueuePayloads :
            (IF last'.op = "http_sync" THEN HttpSyncP(p) ELSE WsSyncP(last'.conn, p))
            => /\ \A a \in ReportedIds(p) : a \notin Ids(queue'[p.device_id])
               /\ Ids(queue'[p.device_id]) =
                    {a \in Ids(queue[p.device_id]) :
                       a \notin (ExplicitAcks(p) \cup ReportedIds(p)) /\ ~Expired(a, now)}]_vars

\* C2 witness: after an accepted sync the newest stored result carries the id of an
\* action issued for that device, and the action is no longer queued.
C2_Witness ==
  \E d \in Devices, a \in ActionIds :
    /\ SyncDone(last) /\ last.dev = d
    /\ issued[a].dev = d
    /\ results[d] # <<>> /\ results[d][Len(results[d])] = a
    /\ a \in acked /\ a \notin Ids(queue[d])

\* C3: two collects that include the same action are at least resend_after apart.
C3_ResendGate ==
  \A a \in ActionIds : prevIncl[a] # 0 => inclAt[a] - prevIncl[a] >= config.resend_after

\* C3 witness: an accepted sync left a queued action out of its response because the
\* action had been included, for the second time, at the current clock value.
C3_Witness ==
  \E d \in Devices, i \in 1..2 :
    /\ SyncDone(last) /\ last.dev = d
    /\ i \in DOMAIN queue[d]
    /\ queue[d][i].id \notin Range(last.actions)
    /\ inclAt[queue[d][i].id] = now
    /\ prevIncl[queue[d][i].id] # 0

\* C4 (as claimed): no collect, for a sync response or for a push, includes an action
\* whose age exceeds its time-to-live.
C4_NoExpiredCollected ==
  [][CollectDone(last') => \A a \in Range(last'.actions) : ~(now' - issued'[a].ts > issued'[a].ttl)]_vars

\* C5: once at least max_queue actions were enqueued for a device since its last prune,
\* its queue is exactly the max_queue most recent of them, in enqueue order.
C5_FifoEviction ==
  \A d \in Devices :
    Len(enqSince[d]) >= config.max_queue
      => IdSeq(queue[d]) = SubSeq(enqSince[d], Len(enqSince[d]) - config.max_queue + 1,
                                  Len(enqSince[d]))

\* C5 witness: more than max_queue actions were enqueued with no prune in between.
C5_Witness ==
  \E d \in Devices : Len(enqSince[d]) > config.max_queue /\ Len(queue[d]) = config.max_queue

C7_ResentWhileUnacked ==
  [][CollectDone(last')
       => /\ \A a \in ActionIds :
               (/\ issued[a].dev = last'.dev
                /\ a \notin acked'
                /\ now - issued[a].ts < issued[a].ttl
                /\ inclAt[a] # 0 /\ now - inclAt[a] >= config.resend_after)
                 => a \in Range(last'.actions)
          /\ \A a \in Range(last'.actions) : a \in Ids(queue'[last'.dev])]_vars

\* C7 (amended): a collect that runs at least resend_after after an action's last send
\* includes the action if it is still queued (not acknowledged, not pruned as expired,
\* not dropped by capacity eviction); and a collect removes nothing from the queue.
C7_ResentWhileQueued ==
  [][CollectDone(last')
       => /\ \A a \in Ids(queue'[last'.dev]) :
               (inclAt[a] # 0 /\ now - inclAt[a] >= config.resend_after)
                 => a \in Range(last'.actions)
          /\ \A a \in Range(last'.actions) : a \in Ids(queue'[last'.dev])]_vars

\* C7 witness: a collect included an action that an earlier collect had included.
C7_Witness ==
  \E a \in ActionIds :
    /\ CollectDone(last) /\ a \in Range(last.actions)
    /\ prevIncl[a] # 0 /\ inclAt[a] = now
    /\ a \in Ids(queue[last.dev])

\* C8: a bind that completes an accepted sync on connection c for a device bound to
\* another connection closes that connection and makes c the bound one; an enqueue
\* addresses its push to the connection bound at that moment; no push is ever written
\* to a connection that a bind has closed, and a closed connection stays closed.
C8_RebindEvicts ==
  [][/\ (last'.op = "ws_bind" /\ last'.status = 200 /\ ws[last'.dev] \notin {NoConn, last'.conn})
          => /\ ~alive'[ws[last'.dev]]
             /\ ws'[last'.dev] = last'.conn
             /\ ws'[last'.dev] # ws[last'.dev]
     /\ (last'.op = "queue" /\ last'.conn # NoConn)
          => last'.conn = ws[last'.dev] /\ alive[last'.conn]
     /\ (last'.op = "push" /\ last'.wrote)
          => alive[last'.conn] /\ last'.conn \notin evicted
     /\ \A c \in Conns : ~alive[c] => ~alive'[c]]_vars

\* C8 witness: c1 was bound to dev1 and closed by the bind of c2; a push of a later
\* enqueue has just been written to c2, which is dev1's bound connection.
C8_Witness ==
  /\ "c1" \in evicted /\ ~alive["c1"]
  /\ ws["dev1"] = "c2" /\ alive["c2"]
  /\ last.op = "push" /\ last.wrote /\ last.conn = "c2" /\ last.dev = "dev1"

\* C9 (as claimed): every push that an enqueue hands to the live bound connection is
\* written to that connection.
C9_PushWritten ==
  [][last'.op = "push" => last'.wrote]_vars

\* C9 (amended): an enqueue that finds a bound, live connection hands that connection a
\* push holding the new action and every other due action, in queue order; the push is
\* written exactly when the connection is still alive at the write and the write does
\* not fail.
C9_PushHandedOver ==
  [][/\ (last'.op = "queue" /\ ws[last'.dev] # NoConn /\ alive[ws[last'.dev]])
          => LET d == last'.dev
                 due == {queue[d][i].id : i \in {j \in DOMAIN queue[d] :
                                                  collect_due(queue[d][j], now)}}
                        \cup {next_id}
             IN /\ next_id \in Range(last'.actions)
                /\ last'.actions = IdSeq(SelectSeq(queue'[d], LAMBDA it : it.id \in due))
                /\ [conn |-> ws[d], dev |-> d, actions |-> last'.actions, pc |-> "send"]
                     \in pushes'
     /\ \A p \in pushes \ pushes' :
          p.pc = "send"
            => /\ last'.op \in {"push", "push_failed"}
               /\ last'.actions = p.actions /\ last'.conn = p.conn
               /\ last'.wrote <=> (alive[p.conn] /\ last'.op = "push")]_vars

\* C9 witness: a push holding two actions, the older one first, was written to the
\* live bound connection.
C9_Witness ==
  /\ last.op = "push" /\ last.wrote
  /\ Len(last.actions) = 2 /\ last.actions[1] < last.actions[2]
  /\ ws[last.dev] = last.conn /\ alive[last.conn]

\* C10 (as claimed): the response to a device's next accepted sync holds every action
\* that an unwritten push carried and that is still queued.
C10_PollPicksUpFailedPush ==
  [][SyncDone(last')
       => \A a \in undelivered :
            (issued[a].dev = last'.dev /\ a \in Ids(queue'[last'.dev]))
              => a \in Range(last'.actions)]_vars

\* C11 (as claimed): a get_result for X with pop = false that finds a result leaves the
\* result list unchanged; one with pop = true that finds a result leaves the list such
\* that the next get_result for X finds nothing.
C11_PeekKeepsPopRemoves ==
  [][(last'.op = "get_result" /\ last'.status = 200)
       => IF last'.wrote
          THEN find_result_index(results'[last'.dev], last'.actions[1]) = 0
          ELSE results' = results]_vars

\* C12: an accepted sync whose ack list holds X leaves X out of the device's queue and
\* stores no result for it: an id enters a device's result list only through a sync of
\* that device whose results list reports it, and get_result finds only stored ids.
C12_AckFabricatesNoResult ==
  [][/\ SyncDone(last')
          => \A p \in ResultPayloads :
               HttpSyncP(p)
                 => /\ \A x \in ExplicitAcks(p) : x \notin Ids(queue'[p.device_id])
                    /\ \A x \in Range(results'[p.device_id]) :
                         x \in Range(results[p.device_id]) \/ x \in ReportedIds(p)
                    /\ \A d \in Devices \ {p.device_id} : results'[d] = results[d]
     /\ ~SyncDone(last')
          => \A d \in Devices : Range(results'[d]) \subseteq Range(results[d])
     /\ (last'.op = "get_result" /\ last'.status = 200)
          => last'.actions[1] \in Range(results[last'.dev])]_vars

\* C12 witness: get_result just answered not-found for an action of the device that a
\* sync acknowledged by its ack list and for which no result is stored.
C12_Witness ==
  \E x \in ActionIds :
    /\ last.op = "get_result" /\ last.status = 404 /\ last.actions = <<x>>
    /\ issued[x].dev = last.dev
    /\ x \in acked /\ x \notin Ids(queue[last.dev])
    /\ x \notin Range(results[last.dev])

\* C13 (as claimed): whatever the registry and the payload, the WebSocket adapter's
\* handling of a message changes the device table, queues, logs, results, info,
\* last-seen and last-device reference exactly as handle_sync called by POST /sync does:
\* its sync step has the effect of handle_sync alone, and its bind step changes nothing
\* but the connection binding.
C13_TransportEquivalence ==
  [][/\ last'.op = "ws_sync"
          => \A p \in AuthPayloads : WsSyncP(last'.conn, p) => handle_sync(p)
     /\ last'.op = "ws_bind"
          => UNCHANGED <<devices, last_seen, info, queue, logs, results, last_device_id>>]_vars

\* C14: an accepted sync is one step: it sets last-seen and the last-device reference,
\* prunes and collects at once, and the actions it returns are exactly the due ones, in
\* queue order, of the queue it found without the acknowledged and the expired
\* actions; that queue holds every action enqueued for the device before the step that
\* was not acknowledged and not pushed out by max_queue later enqueues.
Kept(d) ==
  SelectSeq(queue[d], LAMBDA it : it.id \notin acked' /\ ~(now - it.ts > it.ttl))
C14_SyncAtomic ==
  [][SyncDone(last')
       => LET d == last'.dev IN
          /\ last_seen'[d] = now /\ last_device_id' = d
          /\ IdSeq(queue'[d]) = IdSeq(Kept(d))
          /\ last'.actions =
               IdSeq(SelectSeq(Kept(d), LAMBDA it : it.sent_ts = 0
                                          \/ now - it.sent_ts >= config.resend_after))
          /\ \A i \in DOMAIN queue'[d] :
               queue'[d][i].id \in Range(last'.actions) => queue'[d][i].sent_ts = now
          /\ \A a \in ActionIds :
               (/\ issued[a].dev = d /\ a \notin acked'
                /\ ~(now - issued[a].ts > issued[a].ttl)
                /\ Cardinality({b \in ActionIds : b > a /\ issued[b].dev = d})
                     < config.max_queue)
                 => a \in Ids(queue'[d])]_vars

\* C14 witness: an accepted sync of a device with a bound connection returned two
\* actions, both still queued and stamped by this sync.
C14_Witness ==
  /\ SyncDone(last) /\ Len(last.actions) = 2
  /\ ws[last.dev] # NoConn
  /\ \A a \in Range(last.actions) : a \in Ids(queue[last.dev]) /\ inclAt[a] = now

\* C15 (as claimed): after an accepted sync every top-level field that the device's
\* info map held before is still in the map, with the incoming value if the incoming
\* info mentions it and with its previous value otherwise.
C15_InfoMerged ==
  [][SyncDone(last')
       => \A p \in ResultPayloads :
            HttpSyncP(p) =>
              LET d == p.device_id
                  incoming == IF p.info.isDict THEN p.info.map ELSE {}
              IN /\ incoming \subseteq info'[d]
                 /\ \A kv \in info[d] :
                      (\A nv \in incoming : nv[1] # kv[1]) => kv \in info'[d]]_vars

\* C16: the device table only grows: every record keeps its place, no id has two
\* records, an id without a record has no queue, log, result, info or binding, a lookup
\* of an existing id creates nothing, and the steps that only look a record up (a bind,
\* a get_result) leave its queue, logs, info and, unless they pop, results as they were.
C16_RegistryMonotone ==
  [][/\ Len(devices') >= Len(devices)
     /\ SubSeq(devices', 1, Len(devices)) = devices
     /\ \A i, j \in DOMAIN devices' : devices'[i] = devices'[j] => i = j
     /\ \A d \in Range(devices) : get_device(d) = devices
     /\ \A d \in Devices \ Range(devices') :
          /\ queue'[d] = <<>> /\ logs'[d] = <<>> /\ results'[d] = <<>>
          /\ info'[d] = {} /\ ws'[d] = NoConn
     /\ last'.op \in {"ws_bind", "get_result"}
          => /\ UNCHANGED <<queue, logs, info, last_seen>>
             /\ (last'.op = "ws_bind" \/ ~last'.wrote) => UNCHANGED results]_vars

\* C16 witness: with two records in the table, a bind has just looked up the record of
\* a device that already had a queued action and a log entry; both are still there.
C16_Witness ==
  /\ Len(devices) = 2
  /\ last.op = "ws_bind" /\ last.dev \in Range(devices)
  /\ queue[last.dev] # <<>> /\ logs[last.dev] # <<>>

\* C17 (as claimed): close() on a live connection writes one close frame (opcode 8),
\* closes the stream and clears alive; close() on a connection that is no longer alive
\* writes nothing and does not close the stream.
C17_CloseFrameThenStream ==
  [][last'.op = "ws_close"
       => IF alive[last'.conn]
          THEN /\ close_frames(last'.conn) = <<8>> /\ last'.wrote
               /\ close_stream(last'.conn) /\ ~alive'[last'.conn]
          ELSE /\ close_frames(last'.conn) = <<>> /\ ~last'.wrote
               /\ ~close_stream(last'.conn) /\ ~alive'[last'.conn]]_vars

\* C18 (as claimed): a text frame that is not JSON, or whose payload handle_sync
\* rejects with a status other than 200, never ends the connection: unless a socket
\* write fails, the worker goes on to send its answer and returns to its read loop with
\* the connection alive.
C18_BadInputKeepsConnection ==
  [][/\ (last'.op = "ws_sync" /\ last'.status # 200)
          => pc'[last'.conn] \in {"bind", "send"} /\ alive'[last'.conn]
     /\ (last'.op = "ws_send" /\ last'.status # 200 /\ last'.wrote)
          => pc'[last'.conn] = "recv" /\ alive'[last'.conn]
     /\ (last'.op = "ws_invalid_json" /\ last'.wrote)
          => pc'[last'.conn] = "recv" /\ alive'[last'.conn]]_vars

\* C19 (as claimed): POST /queue never raises; whenever it does not enqueue it answers
\* with a 4xx status, and then the registry is unchanged.
C19_QueueInputAnswered ==
  [][/\ last'.op # "post_queue_raised"
     /\ last'.op = "post_queue"
          => last'.wrote /\ last'.status \in 400..499 /\ UNCHANGED registry
     /\ last'.op = "queue_none" => UNCHANGED registry]_vars

\* C20 (as claimed): a POST to /sync or /queue is answered 413 exactly when its declared
\* length exceeds MAX_BODY_BYTES, and then nothing changes; with a length from 0 to the
\* ceiling the body is parsed, and 400 is the answer when it is not JSON.
C20_BodyCap ==
  [][\A req \in PostReqs :
       ((\E p \in ResultPayloads : do_POST_sync(req, p)) \/ do_POST_queue(req, MaxTimed))
       => /\ (last'.op \in {"post_sync", "post_queue"} /\ last'.status = 413)
               <=> req.length > MAX_BODY_BYTES
          /\ req.length > MAX_BODY_BYTES => UNCHANGED registry
          /\ (req.length <= MAX_BODY_BYTES /\ req.json = "invalid")
               => last'.op \in {"post_sync", "post_queue"} /\ last'.status = 400]_vars

\* C21 (as claimed): once a device has synced, an enqueue and a get_result addressed to
\* "last" operate on the device whose accepted sync is the most recent, and on no
\* other; an enqueue to "last" that returns no id finds no device record and changes
\* nothing.
C21_LastIsMostRecentSync ==
  [][/\ \A p \in pushes \ pushes' :
          (p.pc = "lock" /\ last_device_id # NoDev)
            => /\ last'.op = "queue" /\ last'.dev = last_device_id
               /\ \A d \in Devices \ {last_device_id} : queue'[d] = queue[d]
     /\ (last'.op = "get_result" /\ last_device_id # NoDev)
          => last'.dev = last_device_id
     /\ last'.op = "queue_none" => devices = <<>> /\ UNCHANGED registry]_vars

\* C23 (as claimed): whatever queue_action reads of the registry it reads under the
\* registry lock, in the critical section in which it uses it: between its resolution
\* of "last" and its enqueue no other thread changes the registry.
C23_RegistryAccessLocked ==
  [][(\E p \in pushes : p.pc = "lock")
       => \/ UNCHANGED registry
          \/ \E p \in pushes \ pushes' : p.pc = "lock"]_vars

\* C22: a text framed by send_text and read back by recv_text comes back unchanged,
\* from the unmasked frame and from the same frame masked with a 4-byte key, for
\* payloads in each of the three length tiers.
C22_FrameRoundTrip ==
  [][(sock # <<>> /\ sock' = <<>>) => got' = Text(sent.text)]_vars

C22_Witness ==
  /\ got = Text(sent.text)
  /\ sent.key \in Keys
  /\ Len(sent.text) > 65535

\* C24: no frame is written to a connection inside a critical section of the registry
\* lock: the bind that evicts an old connection, the enqueue and the sync write no
\* frame, and every step that writes a frame (a push, a sync response, an error
\* answer) leaves the registry as it was.
C24_NoFrameUnderRegistryLock ==
  [][/\ last'.op = "ws_bind"
          => bind_frames(last'.dev, last'.conn) = <<>> /\ ~last'.wrote
     /\ last'.op \in {"queue", "ws_sync", "ws_unbind", "push_unbind"} => ~last'.wrote
     /\ (last'.op \in {"push", "ws_send", "ws_invalid_json", "ws_close"} /\ last'.wrote)
          => UNCHANGED registry]_vars

\* C24 witness: a bind has just evicted a connection whose worker is still in its
\* read loop.
C24_Witness ==
  /\ last.op = "ws_bind"
  /\ \E c \in evicted : c # last.conn /\ ~alive[c] /\ pc[c] = "recv"

\* C25: frames written to one connection by concurrent threads are never interleaved:
\* the stream is always the frames of some of the threads, whole and one after the
\* other, followed by the part written so far of the frame of the thread that is
\* writing.
WriteOrders ==
  {o \in UNION {[1..k -> Threads] : k \in 0..Cardinality(Threads)} :
     \A i, j \in DOMAIN o : i # j => o[i] # o[j]}

RECURSIVE Written(_)
Written(o) ==
  IF o = <<>> THEN <<>>
  ELSE Written(SubSeq(o, 1, Len(o) - 1)) \o
       SubSeq(writers[o[Len(o)]].frame, 1, writers[o[Len(o)]].n)

C25_FramesContiguous ==
  \E o \in WriteOrders :
    /\ Range(o) = {t \in Threads : writers[t].n > 0}
    /\ \A i \in 1..(Len(o) - 1) : writers[o[i]].n = Len(writers[o[i]].frame)
    /\ sock = Written(o)

\* C25 witness: a thread is in the middle of its frame while another has its frame
\* ready and waits for the lock, after a third has written its frame.
C25_Witness ==
  \E t, u, v \in Threads :
    /\ writers[t].pc = "locked" /\ writers[t].n > 0 /\ writers[t].n < Len(writers[t].frame)
    /\ writers[u].pc = "built"
    /\ writers[v].pc = "done"

\* C26: _unbind_ws(c) clears the binding of c's device when that binding is c and
\* changes no other binding: a binding that a newer connection has taken is left as it
\* is, and so is everything when c never identified a device or is already unbound.
C26_GuardedUnbind ==
  [][last'.op \in {"ws_unbind", "push_unbind"}
       => \A d \in Devices :
            /\ (d = conn_device_id[last'.conn] /\ ws[d] = last'.conn) => ws'[d] = NoConn
            /\ ws'[d] # ws[d] => /\ ws[d] = last'.conn
                                 /\ d = conn_device_id[last'.conn]
                                 /\ ws'[d] = NoConn]_vars

\* C26 witness: a connection that identified a device has just been unbound while the
\* device is bound to a newer connection, which stays bound.
C26_Witness ==
  /\ last.op = "ws_unbind"
  /\ last.dev # NoDev
  /\ ws[last.dev] \notin {NoConn, last.conn}
  /\ last.conn \in evicted

\* C27: the prune of an accepted sync leaves exactly the actions of the previous queue
\* that are not acknowledged and whose age does not exceed their ttl, in their previous
\* order; an action leaves a queue only through such a prune, acknowledged or expired,
\* or as the oldest action of a full queue on an enqueue.
C27_PruneExact ==
  [][/\ SyncDone(last')
          => IdSeq(queue'[last'.dev]) =
               IdSeq(SelectSeq(queue[last'.dev],
                               LAMBDA it : it.id \notin acked' /\ now - it.ts <= it.ttl))
     /\ \A d \in Devices : \A a \in Ids(queue[d]) \ Ids(queue'[d]) :
          \/ SyncDone(last') /\ last'.dev = d /\ (a \in acked' \/ Expired(a, now))
          \/ /\ last'.op = "queue" /\ last'.dev = d
             /\ Len(queue[d]) = config.max_queue /\ a = queue[d][1].id]_vars

\* C27 witness: a sync has just pruned a queue from which an unacknowledged action
\* has expired, a later action remaining queued at an age equal to its ttl.
C27_Witness ==
  /\ SyncDone(last)
  /\ \E b, c \in 1..(next_id - 1) :
       /\ b < c
       /\ issued[b].dev = last.dev /\ b \notin acked /\ Expired(b, now)
       /\ c \in Ids(queue[last.dev]) /\ now - issued[c].ts = issued[c].ttl

\* C28: every queue holds at most max_queue actions, every log list at most max_logs
\* entries and every result list at most max_results entries, in every state; a sync
\* that reports more results or logs than the limit, and an enqueue on a full queue,
\* are accepted and keep the newest entries in their order.
Newest(s, n) == SubSeq(s, IF Len(s) > n THEN Len(s) - n + 1 ELSE 1, Len(s))
LogTexts(p) == IF p.logs.isList THEN SelectSeq(p.logs.items, LAMBDA x : x # "") ELSE <<>>
ReportedSeq(p) ==
  IF p.results.isList THEN IdSeq(SelectSeq(p.results.items, LAMBDA x : x.isDict)) ELSE <<>>

C28_CapacityBounds ==
  /\ [](\A d \in Devices :
          /\ Len(queue[d]) <= config.max_queue
          /\ Len(logs[d]) <= config.max_logs
          /\ Len(results[d]) <= config.max_results)
  /\ [][/\ \A p \in CapPayloads :
             HttpSyncP(p)
               => /\ last'.status = 200
                  /\ results'[p.device_id] =
                       Newest(results[p.device_id] \o ReportedSeq(p), config.max_results)
                  /\ logs'[p.device_id] =
                       Newest(logs[p.device_id] \o LogTexts(p), config.max_logs)
        /\ last'.op = "queue"
             => /\ last'.status = 200
                /\ IdSeq(queue'[last'.dev]) =
                     Newest(Append(IdSeq(queue[last'.dev]), next_id), config.max_queue)]_vars

\* C28 witness: with every limit at 1, a sync that reported two results has left the
\* second of them alone in the result list, the queue and the log list being full.
C28_Witness ==
  /\ last.op = "http_sync"
  /\ config.max_results = 1 /\ config.max_queue = 1
  /\ results["dev1"] = <<2>>
  /\ Len(queue["dev1"]) = 1 /\ next_id > 2
  /\ Len(logs["dev1"]) = config.max_logs

\* C29: handle_sync answers a payload that is not an object with 400 invalid_payload;
\* an object whose token differs from the configured one with 401 unauthorized, also
\* when its device_id is missing; an object with the right token and no device_id with
\* 400 missing_device_id; and a rejected payload leaves every device record as it was.
C29_ValidationOrder ==
  [][\A p \in AuthPayloads :
       (\/ last'.op = "http_sync" /\ HttpSyncP(p)
        \/ last'.op = "ws_sync" /\ p.isDict /\ WsSyncP(last'.conn, p))
         => /\ ~p.isDict => last'.status = 400 /\ sync_error(p) = "invalid_payload"
            /\ (p.isDict /\ p.token # config.auth_token)
                 => last'.status = 401 /\ sync_error(p) = "unauthorized"
            /\ (p.isDict /\ p.token = config.auth_token /\ p.device_id = NoDev)
                 => last'.status = 400 /\ sync_error(p) = "missing_device_id"
            /\ last'.status # 200 => UNCHANGED registry]_vars

\* C29 witness: a token is configured, a device is registered, and a sync with a wrong
\* token and no device id has just been answered 401.
C29_Witness ==
  /\ config.auth_token # ""
  /\ devices # <<>>
  /\ last.op = "http_sync" /\ last.status = 401 /\ last.dev = NoDev

\* C30 (as claimed): every action in the response of an accepted sync is younger than
\* its ttl at the time of that sync: now - created < ttl; an action whose age equals
\* its ttl is not returned.
C30_StrictTtlEligibility ==
  [][SyncDone(last')
       => \A a \in Range(last'.actions) : now - issued[a].ts < issued[a].ttl]_vars

\* C31: wait_result ends: it returns the result at the first poll that finds it, and
\* returns None only when max(1, timeout) seconds have passed since the call; every
\* poll but the first follows a sleep; a call that has started always returns.
C31_WaitTerminates ==
  /\ [][/\ last'.op = "wait_poll"
             => /\ waiter.fresh
                /\ (find_result_index(results[waiter.dev], waiter.id) # 0)
                     => waiter'.pc = "done" /\ waiter'.found
        /\ (waiter'.pc = "done" /\ waiter.pc # "done" /\ ~waiter'.found)
             => /\ waiter.t >= 2 /\ waiter.t >= 2 * waiter.timeout
                /\ last'.op = "wait_test"]_vars
  /\ (waiter.pc # "idle") ~> (waiter.pc = "done")

\* C31 witness: a call with timeout 2 has returned the result, found at a poll that
\* followed a sleep.
C31_Witness ==
  /\ waiter.pc = "done" /\ waiter.found
  /\ waiter.timeout = 2 /\ waiter.t > 0

\* C32 (as claimed): a push whose write fails closes that connection and no other,
\* leaves the registry and the issued ids as they were, and the unbind that follows
\* leaves the pushed device not bound to that connection and every other device's
\* binding as it was.
C32_PushFailureContained ==
  [][/\ last'.op = "push_failed"
          => /\ ~alive'[last'.conn]
             /\ \A c \in Conns \ {last'.conn} : alive'[c] = alive[c]
             /\ UNCHANGED <<registry, next_id>>
     /\ last'.op = "push_unbind"
          => /\ ws'[last'.dev] # last'.conn
             /\ \A d \in Devices \ {last'.dev} : ws'[d] = ws[d]
             /\ UNCHANGED <<devices, last_seen, info, queue, logs, results, alive>>]_vars

\* C35 (as claimed): once handle_ws has returned for a connection no device is bound
\* to it, and at every moment a connection is the bound connection of no device but
\* the one its device_id names.
C35_NoDanglingBinding ==
  \A c \in Conns : \A d \in Devices :
    ws[d] = c => pc[c] # "done" /\ conn_device_id[c] = d

\* C33 (as claimed): once a connection has been closed by the bind of a newer one, no
\* later step taken for it binds it to a device again or closes another connection.
C33_EvictedStaysOut ==
  [][\A c \in evicted :
       last'.conn = c
         => /\ \A d \in Devices : ws'[d] = c => ws[d] = c
            /\ \A c2 \in Conns \ {c} : alive[c2] => alive'[c2]]_vars

\* C34 (as claimed): with a token configured, a connection that never sent a sync with
\* the right token is bound to no device, has caused no other connection to be closed,
\* and is written no message that holds queued actions.
C34_UnauthenticatedConnectionInert ==
  /\ \A d \in Devices : ws[d] # Intruder
  /\ evicted \subseteq {Intruder}
  /\ ~(last.conn = Intruder /\ last.wrote /\ last.actions # <<>>)

\* C36 (as claimed): once a sync that acknowledges an action has completed, no push and
\* no sync response written afterwards holds that action.
C36_NoDeliveryAfterAck ==
  [][(last'.wrote /\ last'.op \in {"push", "ws_send", "http_sync"})
       => Range(last'.actions) \cap acked = {}]_vars

\* C37: no thread waits for or holds a connection's write lock while it holds the
\* registry lock, no thread waits for the registry lock while it holds a connection's
\* write lock, and as long as a thread has not finished some thread can take a step.
WaitsRegistry(t) == writers[t].pc \in {"idle", "unbind"}
WaitsConnection(t) == writers[t].pc = "built"

C37_DeadlockFree ==
  /\ \A t \in owner : writers[t].pc \notin {"built", "locked"} /\ t \notin lock
  /\ \A t \in lock : ~WaitsRegistry(t) /\ ~WaitsConnection(t)
  /\ (\E t \in Threads : writers[t].pc # "done")
       => \E t \in Threads :
            /\ writers[t].pc # "done"
            /\ ~(WaitsRegistry(t) /\ owner # {})
            /\ ~(WaitsConnection(t) /\ lock # {})

\* C37 witness: the worker is inside _bind_ws, having closed the old connection, while
\* one enqueue thread holds that connection's write lock in the middle of its frame and
\* the other waits for the registry lock to unbind after a failed write.
C37_Witness ==
  /\ writers["worker"].pc = "bound" /\ "worker" \in owner
  /\ \E t, u \in Threads \ {"worker"} :
       /\ t \in lock /\ writers[t].n > 0 /\ writers[t].n < Len(writers[t].frame)
       /\ writers[u].pc = "unbind"

\* C38: a get_result that does not pop, and a get_result that finds no entry, leaves
\* the device records, every queue, every log list, every result list and every
\* binding as they were.
C38_ReadOnlyRetrieval ==
  [][(last'.op = "get_result" /\ (~last'.wrote \/ last'.status = 404))
       => UNCHANGED <<devices, queue, logs, results, ws>>]_vars

\* C39: a step of a sync, an enqueue (its push and the push's failure handling
\* included), a get_result, a bind or an unbind that names a device leaves the queue,
\* logs, results, info, last-seen time and bound connection of every other device as
\* they were.
NamingOps == {"http_sync", "ws_sync", "ws_bind", "ws_unbind", "queue", "push",
              "push_failed", "push_unbind", "get_result"}

C39_DeviceIsolation ==
  [][(last'.op \in NamingOps /\ last'.dev # NoDev)
       => \A d \in Devices \ {last'.dev} :
            /\ queue'[d] = queue[d]
            /\ logs'[d] = logs[d]
            /\ results'[d] = results[d]
            /\ info'[d] = info[d]
            /\ last_seen'[d] = last_seen[d]
            /\ ws'[d] = ws[d]]_vars

====
